---- MODULE Spec2Model ----
(***************************************************************************)
(* Session accounting of claude-cost-tracker.py: the CostTracker class     *)
(* with its three kinds of files in the session directory                  *)
(* (current_session.json, <session_id>.json, session_report_<id>.md).      *)
(*                                                                         *)
(* Units.  Time is counted in clock ticks, TicksPerSecond ticks to the     *)
(* second (datetime.now() has sub-second resolution, strftime("%H%M%S")    *)
(* has not).  Money is counted exactly: prices in 1/1000 dollar per 1000   *)
(* tokens, costs in 1/1000000 dollar, so that (tokens / 1000.0) * price is *)
(* the integer tokens * price.  The rounding of binary64 arithmetic is not *)
(* modelled.                                                               *)
(***************************************************************************)
EXTENDS Integers, Sequences, FiniteSets, TLC

\* ------------------------------------------------------------------ bounds
MaxClock == 3
MaxSteps == 5
TicksPerSecond == 2
MaxTokens == 12
MaxInsightEvents == 6

\* ------------------------------------------------------------------- state
VARIABLES
  current_session_file,  \* content of current_session.json, or NoFile
  session_files,         \* session_id -> content of <session_id>.json, or NoFile
  report_files,          \* session_id -> content of session_report_<id>.md, or NoFile
  now,                   \* the reading of datetime.datetime.now()
  out,                   \* the last command: what it printed and returned
  history,               \* the commands issued and the clock ticks so far
  procs                  \* the invocations that run step by step: where each is

\* ------------------------------------------------------- values and inputs
None == "None"
JsonNull == "null"
\* a file that does not exist
NoFile == << >>
\* nothing printed beside the messages
Nothing == << >>
ProjectPath == "/work"

\* arguments of start with the answer of get_git_commit:
\* <<session_name, git_commit>>
StartInputs ==
  { <<"demo", None>>,
    <<"jwt-auth-development", "a1b2c3d">> }

\* argument of end with the answer of get_git_commit:
\* <<generate_report, git_commit>>
EndInputs ==
  { <<TRUE, "e4f5a6b">>,
    <<TRUE, None>>,
    <<FALSE, "e4f5a6b">> }
Clock == 0..MaxClock

\* the arguments of log in the pricing runs
TokenCounts == 0..MaxTokens \cup {800, 1500}
Models ==
  {"claude-sonnet-4", "claude-opus-4", "claude-haiku-3", "claude-sonnet-3.5", "gpt-5"}

\* arguments of log: <<tokens_in, tokens_out, model, operation, context>>
LogInputs ==
  { <<1500, 800, "claude-sonnet-4", "chat", "x">>,
    <<500, 3000, "claude-opus-4", "review", "">>,
    <<1000, 2000, "gpt-5", "chat", "">>,
    <<0, 0, "claude-haiku-3", "analysis", "">> }

\* arguments of log in the insight runs: a cheap claude-opus-4 event, the
\* events of the usage examples, and events whose output to input ratio is
\* exactly 2.0 and exactly 0.5
InsightInputs ==
  { <<1, 1, "claude-opus-4", "chat", "">>,
    <<1500, 800, "claude-sonnet-4", "chat", "x">>,
    <<500, 3000, "claude-sonnet-4", "code_generation", "">>,
    <<1000, 2000, "gpt-5", "chat", "">>,
    <<2000, 1000, "claude-haiku-3", "code_review", "">>,
    <<40000, 0, "claude-haiku-3", "analysis", "">> }

Max(a, b) == IF a >= b THEN a ELSE b

\* ----------------------------------------------------------- pricing table
ModelPricing(input, output) ==
  [input_price_per_1k |-> input, output_price_per_1k |-> output]

MODEL_PRICING ==
  [m \in {"claude-sonnet-4", "claude-opus-4", "claude-haiku-3", "claude-sonnet-3.5"} |->
     CASE m = "claude-sonnet-4"   -> ModelPricing(3000, 15000)
       [] m = "claude-opus-4"     -> ModelPricing(15000, 75000)
       [] m = "claude-haiku-3"    -> ModelPricing(250, 1250)
       [] m = "claude-sonnet-3.5" -> ModelPricing(3000, 15000)]

\* the model whose prices calculate_cost uses
priced_model(model) ==
  IF model \notin DOMAIN MODEL_PRICING THEN "claude-sonnet-4" ELSE model

\* calculate_cost that prices the output tokens at the input price
calculate_cost_input_price(model, tokens_input, tokens_output) ==
  LET pricing == MODEL_PRICING[priced_model(model)]
      cost_input == tokens_input * pricing.input_price_per_1k
      cost_output == tokens_output * pricing.input_price_per_1k
      total_cost == cost_input + cost_output
  IN  <<cost_input, cost_output, total_cost>>

calculate_cost(model, tokens_input, tokens_output) ==
  LET pricing == MODEL_PRICING[priced_model(model)]
      cost_input == tokens_input * pricing.input_price_per_1k
      cost_output == tokens_output * pricing.output_price_per_1k
      total_cost == cost_input + cost_output
  IN  <<cost_input, cost_output, total_cost>>

\* the warning calculate_cost prints for a model outside the table
cost_warning(model) ==
  IF model \notin DOMAIN MODEL_PRICING
  THEN <<"Warning: Unknown model, using claude-sonnet-4 pricing">>
  ELSE <<>>

\* ------------------------------------------------------------ json.dump/load
\* None is written as null and read back as None; numbers, strings, lists
\* and dicts keep their value.
JsonOfOptional(v) == IF v = None THEN JsonNull ELSE v
OptionalOfJson(v) == IF v = JsonNull THEN None ELSE v

json_dump(session) ==
  [session EXCEPT !.end_time = JsonOfOptional(@),
                  !.git_commit_start = JsonOfOptional(@),
                  !.git_commit_end = JsonOfOptional(@)]

json_load(file) ==
  [file EXCEPT !.end_time = OptionalOfJson(@),
               !.git_commit_start = OptionalOfJson(@),
               !.git_commit_end = OptionalOfJson(@)]

\* ----------------------------------------------------------------- session
\* datetime.isoformat and datetime.fromisoformat: a clock reading as text
isoformat(t) == ToString(t)
fromisoformat(text) == CHOOSE t \in Clock : isoformat(t) = text

\* strftime("%Y%m%d_%H%M"): the clock reading cut to whole minutes
strftime_minutes(t) == ToString(t \div (60 * TicksPerSecond))

\* strftime("%Y%m%d_%H%M%S"): the clock reading cut to whole seconds, as text
strftime_seconds(t) == ToString(t \div TicksPerSecond)

SessionIds == { strftime_seconds(t) : t \in Clock }

SessionSummary(session_id, session_name, start_time, git_commit) ==
  [session_id |-> session_id,
   session_name |-> session_name,
   start_time |-> start_time,
   end_time |-> None,
   project_path |-> ProjectPath,
   git_commit_start |-> git_commit,
   git_commit_end |-> None,
   total_entries |-> 0,
   total_tokens_input |-> 0,
   total_tokens_output |-> 0,
   total_cost |-> 0,
   operations |-> << >>,
   models_used |-> << >>,
   entries |-> << >>]

\* SessionEntry that records the model whose prices were used
SessionEntry_priced(timestamp, tokens_input, tokens_output, model, operation, context) ==
  LET cost == calculate_cost(model, tokens_input, tokens_output)
  IN  [timestamp |-> timestamp,
       operation |-> operation,
       model |-> priced_model(model),
       tokens_input |-> tokens_input,
       tokens_output |-> tokens_output,
       cost_input |-> cost[1],
       cost_output |-> cost[2],
       total_cost |-> cost[3],
       context |-> context]

SessionEntry(timestamp, tokens_input, tokens_output, model, operation, context) ==
  LET cost == calculate_cost(model, tokens_input, tokens_output)
  IN  [timestamp |-> timestamp,
       operation |-> operation,
       model |-> model,
       tokens_input |-> tokens_input,
       tokens_output |-> tokens_output,
       cost_input |-> cost[1],
       cost_output |-> cost[2],
       total_cost |-> cost[3],
       context |-> context]

\* count_up that sets the count to zero on every call
count_up_reset(d, key) ==
  [k \in DOMAIN d \cup {key} |-> IF k = key THEN 0 + 1 ELSE d[k]]

\* d[key] += 1 after "if key not in d: d[key] = 0"
count_up(d, key) ==
  [k \in DOMAIN d \cup {key} |-> IF k = key
                                   THEN (IF key \in DOMAIN d THEN d[key] ELSE 0) + 1
                                   ELSE d[k]]

\* append that puts the new event in front of the others
append_entry_front(entries, entry) == <<entry>> \o entries

\* session_data["entries"].append(asdict(entry))
append_entry(entries, entry) == Append(entries, entry)

\* log_update that adds the input cost only to the session's total_cost
log_update_cost_input(session_data, entry) ==
  [session_data EXCEPT
     !.entries = Append(@, entry),
     !.total_entries = @ + 1,
     !.total_tokens_input = @ + entry.tokens_input,
     !.total_tokens_output = @ + entry.tokens_output,
     !.total_cost = @ + entry.cost_input,
     !.operations = count_up(@, entry.operation),
     !.models_used = count_up(@, entry.model)]

\* log_usage, "Update session totals" to "Update model counts"
log_update(session_data, entry) ==
  [session_data EXCEPT
     !.entries = append_entry(@, entry),
     !.total_entries = @ + 1,
     !.total_tokens_input = @ + entry.tokens_input,
     !.total_tokens_output = @ + entry.tokens_output,
     !.total_cost = @ + entry.total_cost,
     !.operations = count_up(@, entry.operation),
     !.models_used = count_up(@, entry.model)]

\* end_update that stamps the current time on start_time as well
end_update_restart(session_data, end_time, git_commit) ==
  [session_data EXCEPT !.start_time = end_time, !.end_time = end_time,
                       !.git_commit_end = git_commit]

\* end_update that records the commit and leaves end_time as it was
end_update_commit_only(session_data, end_time, git_commit) ==
  [session_data EXCEPT !.git_commit_end = git_commit]

\* end_session, "Update end time and git commit"
end_update(session_data, end_time, git_commit) ==
  [session_data EXCEPT !.end_time = end_time, !.git_commit_end = git_commit]

\* ------------------------------------------------------------------ report
\* dict.get(key, default) on a session dict, rendered by an f-string
get_rendered(session_data, key, default) ==
  IF key \in DOMAIN session_data THEN session_data[key] ELSE default

report_start_time(session_data) == fromisoformat(session_data.start_time)

\* report_end_time that falls back to the current time
report_end_time_now(session_data) ==
  IF session_data.end_time # None
  THEN fromisoformat(session_data.end_time)
  ELSE now

report_end_time(session_data) ==
  IF session_data.end_time # None
  THEN fromisoformat(session_data.end_time)
  ELSE report_start_time(session_data)

report_duration(session_data) ==
  report_end_time(session_data) - report_start_time(session_data)

\* The divisor of every division generate_markdown_report evaluates.
\* avg_cost and output_ratio are in tokens, percentage in entries;
\* hourly_rate is max(seconds / 3600, 0.01) in units of 1/(3600 *
\* TicksPerSecond) hour, tokens_per_minute is max(seconds / 60, 1) in units
\* of 1/(60 * TicksPerSecond) minute.
avg_cost_divisor(session_data) ==
  Max(1, session_data.total_tokens_input + session_data.total_tokens_output)

operation_divisors(session_data) ==
  { session_data.total_entries : operation \in DOMAIN session_data.operations }

model_divisors(session_data) ==
  { session_data.total_entries : model \in DOMAIN session_data.models_used }

hourly_rate_divisor(session_data) ==
  Max(report_duration(session_data), 36 * TicksPerSecond)

\* output_ratio_divisor without the max(..., 1)
output_ratio_divisor_bare(session_data) ==
  session_data.total_tokens_input

output_ratio_divisor(session_data) ==
  Max(session_data.total_tokens_input, 1)

tokens_per_minute_divisor(session_data) ==
  Max(report_duration(session_data), 60 * TicksPerSecond)

report_divisors(session_data) ==
  [avg_cost |-> avg_cost_divisor(session_data),
   operations |-> operation_divisors(session_data),
   models |-> model_divisors(session_data),
   hourly_rate |-> hourly_rate_divisor(session_data),
   output_ratio |-> output_ratio_divisor(session_data),
   tokens_per_minute |-> tokens_per_minute_divisor(session_data)]

\* a division by zero raises ZeroDivisionError out of the report generator
raises_zero_division(divisors) ==
  \/ divisors.avg_cost = 0
  \/ 0 \in divisors.operations
  \/ 0 \in divisors.models
  \/ divisors.hourly_rate = 0
  \/ divisors.output_ratio = 0
  \/ divisors.tokens_per_minute = 0

\* insights with the thresholds included (>=, <=)
insights_inclusive(session_data) ==
  LET tokens_in == Max(session_data.total_tokens_input, 1)
      tokens_out == session_data.total_tokens_output
      opus == "claude-opus-4"
  IN  (IF session_data.total_cost >= 10000000 THEN <<"High cost session">> ELSE <<>>)
      \o (IF 2 * tokens_out <= tokens_in THEN <<"Low output ratio">>
          ELSE IF tokens_out >= 2 * tokens_in THEN <<"High output ratio">>
          ELSE <<>>)
      \o (IF opus \in DOMAIN session_data.models_used /\ session_data.models_used[opus] >= 5
          THEN <<"Heavy Opus usage">> ELSE <<>>)

\* the insight lines, total_cost in 1/1000000 dollar
insights(session_data) ==
  LET tokens_in == Max(session_data.total_tokens_input, 1)
      tokens_out == session_data.total_tokens_output
      opus == "claude-opus-4"
  IN  (IF session_data.total_cost > 10000000 THEN <<"High cost session">> ELSE <<>>)
      \o (IF 2 * tokens_out < tokens_in THEN <<"Low output ratio">>
          ELSE IF tokens_out > 2 * tokens_in THEN <<"High output ratio">>
          ELSE <<>>)
      \o (IF opus \in DOMAIN session_data.models_used /\ session_data.models_used[opus] > 5
          THEN <<"Heavy Opus usage">> ELSE <<>>)

\* the path of the report of a session
report_name(session_id) == "session_report_" \o session_id \o ".md"

\* what generate_markdown_report writes to session_report_<session_id>.md
report_content(session_data) ==
  [session_id |-> session_data.session_id,
   session_name |-> session_data.session_name,
   start_time |-> report_start_time(session_data),
   end_time |-> report_end_time(session_data),
   duration |-> report_duration(session_data),
   git_commit_start |-> get_rendered(session_data, "git_commit_start", "N/A"),
   git_commit_end |-> get_rendered(session_data, "git_commit_end", "N/A"),
   total_cost |-> session_data.total_cost,
   total_entries |-> session_data.total_entries,
   divisors |-> report_divisors(session_data),
   insights |-> insights(session_data)]

\* -------------------------------------------------------------- operations
vars == <<current_session_file, session_files, report_files, now, out, history, procs>>

persisted == <<current_session_file, session_files, report_files>>

Output(op, msgs, ret, shown) ==
  [op |-> op, msgs |-> msgs, ret |-> ret, shown |-> shown]

NoSessionMsgs ==
  { "No active session. Start a session first with 'start' command.",
    "No active session to end.",
    "No active session" }

\* the processes that run a command step by step
Procs == {1, 2}

\* a process: its command, the place it has reached, its local session_data
\* and its generate_report
Proc(cmd, pc, data, flag) == [cmd |-> cmd, pc |-> pc, data |-> data, flag |-> flag]

IdleProc == Proc("none", "idle", Nothing, FALSE)

Init ==
  /\ procs = [p \in Procs |-> IdleProc]
  /\ current_session_file = NoFile
  /\ session_files = [id \in SessionIds |-> NoFile]
  /\ report_files = [id \in SessionIds |-> NoFile]
  /\ now \in 0..(TicksPerSecond - 1)
  /\ out = Output("init", <<>>, None, Nothing)
  /\ history = <<>>

\* time passes between and within commands
Tick ==
  /\ now < MaxClock
  /\ now' = now + 1
  /\ UNCHANGED <<current_session_file, session_files, report_files, out>>

\* start_session that keeps the entries and totals of the session it replaces
start_session_keep(session_name, git_commit, elapsed) ==
  /\ now + elapsed <= MaxClock
  /\ LET session_id == strftime_seconds(now)
         session == SessionSummary(session_id, session_name, isoformat(now + elapsed), git_commit)
     IN  /\ current_session_file' =
              IF current_session_file = NoFile
              THEN json_dump(session)
              ELSE [current_session_file EXCEPT
                      !.session_id = session_id,
                      !.session_name = session_name,
                      !.start_time = isoformat(now + elapsed),
                      !.git_commit_start = JsonOfOptional(git_commit)]
         /\ out' = Output("start", <<"Started session">>, session_id, Nothing)
  /\ now' = now + elapsed
  /\ UNCHANGED <<session_files, report_files>>

\* start_session: the clock is read for session_id, then again for
\* start_time, elapsed ticks later
start_session(session_name, git_commit, elapsed) ==
  /\ now + elapsed <= MaxClock
  /\ LET session_id == strftime_seconds(now)
         session == SessionSummary(session_id, session_name, isoformat(now + elapsed), git_commit)
     IN  /\ current_session_file' = json_dump(session)
         /\ out' = Output("start", <<"Started session">>, session_id, Nothing)
  /\ now' = now + elapsed
  /\ UNCHANGED <<session_files, report_files>>

\* log_usage that opens a session of its own when there is none
log_usage_autostart(tokens_input, tokens_output, model, operation, context) ==
  LET session_data == IF current_session_file = NoFile
                      THEN SessionSummary(strftime_seconds(now), "", isoformat(now), None)
                      ELSE json_load(current_session_file)
      entry == SessionEntry(isoformat(now), tokens_input, tokens_output, model, operation, context)
  IN  /\ current_session_file' = json_dump(log_update(session_data, entry))
      /\ out' = Output("log", cost_warning(model) \o <<"Logged">>, None,
                       [tokens_input |-> tokens_input,
                        tokens_output |-> tokens_output,
                        total_cost |-> entry.total_cost,
                        model |-> model])
      /\ UNCHANGED <<session_files, report_files, now>>

\* log_usage
log_usage(tokens_input, tokens_output, model, operation, context) ==
  IF current_session_file = NoFile
  THEN /\ out' = Output("log", <<"No active session. Start a session first with 'start' command.">>,
                        None, Nothing)
       /\ UNCHANGED <<current_session_file, session_files, report_files, now>>
  ELSE /\ LET session_data == json_load(current_session_file)
              entry == SessionEntry(isoformat(now), tokens_input, tokens_output, model, operation, context)
          IN  /\ current_session_file' = json_dump(log_update(session_data, entry))
              /\ out' = Output("log", cost_warning(model) \o <<"Logged">>, None,
                               [tokens_input |-> tokens_input,
                                tokens_output |-> tokens_output,
                                total_cost |-> entry.total_cost,
                                model |-> model])
       /\ UNCHANGED <<session_files, report_files, now>>

\* end_session
end_session(generate_report, git_commit) ==
  IF current_session_file = NoFile
  THEN /\ out' = Output("end", <<"No active session to end.">>, None, Nothing)
       /\ UNCHANGED <<current_session_file, session_files, report_files, now>>
  ELSE LET session_data == end_update(json_load(current_session_file), isoformat(now), git_commit)
           session_id == session_data.session_id
           summary == [session_name |-> session_data.session_name,
                       total_cost |-> session_data.total_cost,
                       total_tokens_input |-> session_data.total_tokens_input,
                       total_tokens_output |-> session_data.total_tokens_output]
       IN  /\ session_files' = [session_files EXCEPT ![session_id] = json_dump(session_data)]
           /\ IF generate_report /\ raises_zero_division(report_divisors(session_data))
              THEN \* the exception leaves end_session before unlink()
                   /\ out' = Output("end", <<"ZeroDivisionError">>, "raised", Nothing)
                   /\ UNCHANGED <<current_session_file, report_files>>
              ELSE /\ report_files' =
                        IF generate_report
                        THEN [report_files EXCEPT ![session_id] = report_content(session_data)]
                        ELSE report_files
                   /\ current_session_file' = NoFile
                   /\ out' = Output("end",
                                    <<"Session ended">>
                                      \o (IF generate_report THEN <<"Report saved">> ELSE <<>>),
                                    IF generate_report THEN report_name(session_id) ELSE None,
                                    summary)
           /\ UNCHANGED now

\* status that shows the first event of the session as the last activity
status_first_event ==
  /\ IF current_session_file = NoFile
     THEN out' = Output("status", <<"No active session">>, None, Nothing)
     ELSE LET session_data == json_load(current_session_file)
              entries == session_data.entries
          IN  out' = Output("status",
                            <<"Active Session">>
                              \o (IF entries # <<>> THEN <<"Last Activity">> ELSE <<>>),
                            None,
                            [session_name |-> session_data.session_name,
                             total_cost |-> session_data.total_cost,
                             total_entries |-> session_data.total_entries,
                             total_tokens_input |-> session_data.total_tokens_input,
                             total_tokens_output |-> session_data.total_tokens_output,
                             last_activity |->
                               IF entries # <<>>
                               THEN <<entries[1].operation,
                                      entries[1].timestamp>>
                               ELSE Nothing])
  /\ UNCHANGED <<current_session_file, session_files, report_files, now>>

\* status
status ==
  /\ IF current_session_file = NoFile
     THEN out' = Output("status", <<"No active session">>, None, Nothing)
     ELSE LET session_data == json_load(current_session_file)
              entries == session_data.entries
          IN  out' = Output("status",
                            <<"Active Session">>
                              \o (IF entries # <<>> THEN <<"Last Activity">> ELSE <<>>),
                            None,
                            [session_name |-> session_data.session_name,
                             total_cost |-> session_data.total_cost,
                             total_entries |-> session_data.total_entries,
                             total_tokens_input |-> session_data.total_tokens_input,
                             total_tokens_output |-> session_data.total_tokens_output,
                             last_activity |->
                               IF entries # <<>>
                               THEN <<entries[Len(entries)].operation,
                                      entries[Len(entries)].timestamp>>
                               ELSE Nothing])
  /\ UNCHANGED <<current_session_file, session_files, report_files, now>>

Start == \E args \in StartInputs, elapsed \in 0..1 :
           start_session(args[1], args[2], elapsed)

Log == \E args \in LogInputs : log_usage(args[1], args[2], args[3], args[4], args[5])

End == \E args \in EndInputs : end_session(args[1], args[2])

Status == status

\* one more step of the run, at most MaxSteps of them
Step(name, A) ==
  /\ Len(history) < MaxSteps
  /\ history' = Append(history, name)
  /\ UNCHANGED procs
  /\ A

Next ==
  \/ Step("tick", Tick)
  \/ Step("start", Start)
  \/ Step("log", Log)
  \/ Step("end", End)
  \/ Step("status", Status)

Spec == Init /\ [][Next]_vars

\* The usage of the module docstring, start then log then end, with the
\* token counts and the model of log drawn from TokenCounts and Models.
LogPriced == \E tokens_input \in TokenCounts, tokens_output \in TokenCounts, model \in Models :
               log_usage(tokens_input, tokens_output, model, "chat", "")

PricingNext ==
  \/ history = <<>> /\ Step("start", Start)
  \/ history = <<"start">> /\ Step("log", LogPriced)
  \/ history = <<"start", "log">> /\ Step("end", End)

PricingSpec == Init /\ [][PricingNext]_vars

\* generate_markdown_report called on the session in progress, the one of
\* current_session.json
report_in_progress ==
  /\ current_session_file # NoFile
  /\ LET session_data == json_load(current_session_file)
         session_id == session_data.session_id
     IN  /\ ~raises_zero_division(report_divisors(session_data))
         /\ report_files' = [report_files EXCEPT ![session_id] = report_content(session_data)]
         /\ out' = Output("report", <<>>, report_name(session_id), Nothing)
  /\ UNCHANGED <<current_session_file, session_files, now>>

RenderNext ==
  \/ Step("tick", Tick)
  \/ Step("start", Start)
  \/ Step("log", Log)
  \/ Step("report", report_in_progress)

RenderSpec == Init /\ [][RenderNext]_vars

\* ------------------------------------------------- commands step by step
\* open(file, 'w') empties the file; json.dump then writes the text through
\* the file buffer, in one piece or in several.
Truncated == [text |-> ""]
Partial == [text |-> "{"]
TornFiles == {Truncated, Partial}

Finished(p) == procs[p].pc \in {"idle", "done", "failed", "killed"}

StepName(p, name) == name \o "@" \o ToString(p)

\* process p takes the step name and comes to proc
Proceed(p, name, proc) ==
  /\ Len(history) < MaxSteps
  /\ procs' = [procs EXCEPT ![p] = proc]
  /\ history' = Append(history, StepName(p, name))

\* start_session up to the SessionSummary it is about to write
start_build(p, session_name, git_commit) ==
  /\ Finished(p)
  /\ Proceed(p, "start.build",
             Proc("start", "loaded",
                  SessionSummary(strftime_seconds(now), session_name, isoformat(now), git_commit),
                  FALSE))
  /\ UNCHANGED <<current_session_file, session_files, report_files, now, out>>

\* log_usage up to the session_data it is about to write
log_load(p, tokens_input, tokens_output, model, operation, context) ==
  /\ Finished(p)
  /\ IF current_session_file = NoFile
     THEN /\ Proceed(p, "log.load", Proc("log", "done", Nothing, FALSE))
          /\ out' = Output("log", <<"No active session. Start a session first with 'start' command.">>,
                           None, Nothing)
     ELSE IF current_session_file \in TornFiles
     THEN \* json.load raises
          /\ Proceed(p, "log.load", Proc("log", "failed", Nothing, FALSE))
          /\ out' = Output("log", <<"JSONDecodeError">>, "raised", Nothing)
     ELSE LET session_data == json_load(current_session_file)
              entry == SessionEntry(isoformat(now), tokens_input, tokens_output, model,
                                    operation, context)
          IN  /\ Proceed(p, "log.load", Proc("log", "loaded", log_update(session_data, entry), FALSE))
              /\ UNCHANGED out
  /\ UNCHANGED <<current_session_file, session_files, report_files, now>>

\* open(self.current_session_file, 'w') of start_session and log_usage
write_open(p) ==
  /\ procs[p].pc = "loaded"
  /\ procs[p].cmd \in {"start", "log"}
  /\ current_session_file' = Truncated
  /\ Proceed(p, "write.open", [procs[p] EXCEPT !.pc = "opened"])
  /\ UNCHANGED <<session_files, report_files, now, out>>

\* json.dump has filled the file buffer once and it was written out
write_flush(p) ==
  /\ procs[p].pc = "opened"
  /\ current_session_file' = Partial
  /\ Proceed(p, "write.flush", [procs[p] EXCEPT !.pc = "flushing"])
  /\ UNCHANGED <<session_files, report_files, now, out>>

\* what start_session and log_usage print and return after the write
confirmation(proc) ==
  IF proc.cmd = "start"
  THEN Output("start", <<"Started session">>, proc.data.session_id, Nothing)
  ELSE LET entry == proc.data.entries[Len(proc.data.entries)]
       IN  Output("log", cost_warning(entry.model) \o <<"Logged">>, None,
                  [tokens_input |-> entry.tokens_input,
                   tokens_output |-> entry.tokens_output,
                   total_cost |-> entry.total_cost,
                   model |-> entry.model])

\* the end of the with block: all of the text is in the file; the
\* confirmation is printed
write_close(p) ==
  /\ procs[p].pc \in {"opened", "flushing"}
  /\ current_session_file' = json_dump(procs[p].data)
  /\ Proceed(p, "write.close", [procs[p] EXCEPT !.pc = "done"])
  /\ out' = confirmation(procs[p])
  /\ UNCHANGED <<session_files, report_files, now>>

\* write_whole that returns without writing the file
write_whole_skip(p) ==
  /\ procs[p].pc = "loaded"
  /\ procs[p].cmd \in {"start", "log"}
  /\ Proceed(p, "write", [procs[p] EXCEPT !.pc = "done"])
  /\ out' = confirmation(procs[p])
  /\ UNCHANGED <<current_session_file, session_files, report_files, now>>

\* the with block from open to close with no step of another invocation
\* in between
write_whole(p) ==
  /\ procs[p].pc = "loaded"
  /\ procs[p].cmd \in {"start", "log"}
  /\ current_session_file' = json_dump(procs[p].data)
  /\ Proceed(p, "write", [procs[p] EXCEPT !.pc = "done"])
  /\ out' = confirmation(procs[p])
  /\ UNCHANGED <<session_files, report_files, now>>

\* the process is interrupted where it is
kill(p) ==
  /\ ~Finished(p)
  /\ Proceed(p, "kill", [procs[p] EXCEPT !.pc = "killed"])
  /\ UNCHANGED <<current_session_file, session_files, report_files, now, out>>

\* log, end or status find a file that json.load cannot read
load_fails(op) ==
  /\ current_session_file \in TornFiles
  /\ out' = Output(op, <<"JSONDecodeError">>, "raised", Nothing)
  /\ UNCHANGED <<current_session_file, session_files, report_files, now>>

\* end_session up to and with the write of the closed record
end_save(p, generate_report, git_commit) ==
  /\ Finished(p)
  /\ IF current_session_file = NoFile
     THEN /\ Proceed(p, "end.save", Proc("end", "done", Nothing, generate_report))
          /\ out' = Output("end", <<"No active session to end.">>, None, Nothing)
          /\ UNCHANGED session_files
     ELSE LET session_data == end_update(json_load(current_session_file), isoformat(now), git_commit)
          IN  /\ session_files' = [session_files EXCEPT
                                     ![session_data.session_id] = json_dump(session_data)]
              /\ Proceed(p, "end.save", Proc("end", "saved", session_data, generate_report))
              /\ UNCHANGED out
  /\ UNCHANGED <<current_session_file, report_files, now>>

\* report_file = self.generate_markdown_report(session_data)
end_report(p) ==
  /\ procs[p].cmd = "end"
  /\ procs[p].pc = "saved"
  /\ procs[p].flag
  /\ ~raises_zero_division(report_divisors(procs[p].data))
  /\ report_files' = [report_files EXCEPT
                        ![procs[p].data.session_id] = report_content(procs[p].data)]
  /\ Proceed(p, "end.report", [procs[p] EXCEPT !.pc = "reported"])
  /\ UNCHANGED <<current_session_file, session_files, now, out>>

\* end_report_fails that removes the active record on its way out
end_report_fails_cleanup(p) ==
  /\ procs[p].cmd = "end"
  /\ procs[p].pc = "saved"
  /\ procs[p].flag
  /\ current_session_file' = NoFile
  /\ Proceed(p, "end.fail", [procs[p] EXCEPT !.pc = "failed"])
  /\ out' = Output("end", <<"Error">>, "raised", Nothing)
  /\ UNCHANGED <<session_files, report_files, now>>

\* generate_markdown_report raises: a division by zero, or an OSError of
\* open(report_file, 'w'), which leaves the reports as they are, or of
\* f.write, which leaves an empty report
end_report_fails(p) ==
  /\ procs[p].cmd = "end"
  /\ procs[p].pc = "saved"
  /\ procs[p].flag
  /\ \E opened \in BOOLEAN :
        report_files' = IF opened
                        THEN [report_files EXCEPT ![procs[p].data.session_id] = Truncated]
                        ELSE report_files
  /\ Proceed(p, "end.fail", [procs[p] EXCEPT !.pc = "failed"])
  /\ out' = Output("end", <<"Error">>, "raised", Nothing)
  /\ UNCHANGED <<current_session_file, session_files, now>>

\* end_unlink that does not wait for the report
end_unlink_early(p) ==
  /\ procs[p].cmd = "end"
  /\ procs[p].pc \in {"saved", "reported"}
  /\ current_session_file' = NoFile
  /\ Proceed(p, "end.unlink", [procs[p] EXCEPT !.pc = "done"])
  /\ out' = Output("end",
                   <<"Session ended">> \o (IF procs[p].flag THEN <<"Report saved">> ELSE <<>>),
                   IF procs[p].flag THEN report_name(procs[p].data.session_id) ELSE None,
                   [session_name |-> procs[p].data.session_name,
                    total_cost |-> procs[p].data.total_cost,
                    total_tokens_input |-> procs[p].data.total_tokens_input,
                    total_tokens_output |-> procs[p].data.total_tokens_output])
  /\ UNCHANGED <<session_files, report_files, now>>

\* end_session from self.current_session_file.unlink() to the return
end_unlink(p) ==
  /\ procs[p].cmd = "end"
  /\ procs[p].pc = (IF procs[p].flag THEN "reported" ELSE "saved")
  /\ current_session_file' = NoFile
  /\ Proceed(p, "end.unlink", [procs[p] EXCEPT !.pc = "done"])
  /\ out' = Output("end",
                   <<"Session ended">> \o (IF procs[p].flag THEN <<"Report saved">> ELSE <<>>),
                   IF procs[p].flag THEN report_name(procs[p].data.session_id) ELSE None,
                   [session_name |-> procs[p].data.session_name,
                    total_cost |-> procs[p].data.total_cost,
                    total_tokens_input |-> procs[p].data.total_tokens_input,
                    total_tokens_output |-> procs[p].data.total_tokens_output])
  /\ UNCHANGED <<session_files, report_files, now>>

\* a whole command, run while no other invocation is in flight, on a file
\* that json.load can read
Whole(name, A) ==
  /\ \A p \in Procs : Finished(p)
  /\ current_session_file \notin TornFiles
  /\ Step(name, A)

\* One invocation at a time; start and log write their file step by step
\* and can be interrupted at every step.
CrashNext ==
  \/ Step("tick", Tick)
  \/ Whole("start", Start)
  \/ Whole("end", End)
  \/ Whole("status", Status)
  \/ \E input \in StartInputs : start_build(1, input[1], input[2])
  \/ \E input \in LogInputs : log_load(1, input[1], input[2], input[3], input[4], input[5])
  \/ write_open(1)
  \/ write_flush(1)
  \/ write_close(1)
  \/ kill(1)
  \/ Step("load_fails", Finished(1) /\ \E op \in {"end", "status"} : load_fails(op))

CrashSpec == Init /\ [][CrashNext]_vars

\* Two log invocations, one for each process, on the session directory that
\* the commands before them left; their steps interleave freely.
ConcNext ==
  \/ Step("tick", Tick)
  \/ Whole("start", (\A p \in Procs : procs[p].pc = "idle") /\ Start)
  \/ \E p \in Procs :
       \/ /\ procs[p].pc = "idle"
          /\ \E input \in LogInputs : log_load(p, input[1], input[2], input[3], input[4], input[5])
       \/ write_whole(p)
       \/ write_open(p)
       \/ write_flush(p)
       \/ write_close(p)

ConcSpec == Init /\ [][ConcNext]_vars

\* One invocation at a time; end runs step by step and the write of its
\* report can fail.
EndNext ==
  \/ Step("tick", Tick)
  \/ Whole("start", Start)
  \/ Whole("log", Log)
  \/ Whole("status", Status)
  \/ Whole("end", End)
  \/ \E input \in EndInputs : end_save(1, input[1], input[2])
  \/ end_report(1)
  \/ end_report_fails(1)
  \/ end_unlink(1)

EndSpec == Init /\ [][EndNext]_vars

\* One session of up to MaxInsightEvents events drawn from InsightInputs,
\* ended with a report.
StartNow == \E args \in StartInputs : start_session(args[1], args[2], 0)

LogInsight == \E args \in InsightInputs : log_usage(args[1], args[2], args[3], args[4], args[5])

EndReport == \E args \in { a \in EndInputs : a[1] } : end_session(args[1], args[2])

InsightNext ==
  \/ history = <<>> /\ history' = <<"start">> /\ StartNow /\ UNCHANGED procs
  \/ /\ history # <<>>
     /\ history[Len(history)] # "end"
     /\ Len(history) <= MaxInsightEvents
     /\ history' = Append(history, "log")
     /\ LogInsight
     /\ UNCHANGED procs
  \/ /\ history # <<>>
     /\ history[Len(history)] # "end"
     /\ history' = Append(history, "end")
     /\ EndReport
     /\ UNCHANGED procs

InsightSpec == Init /\ [][InsightNext]_vars

\* ------------------------------------------------------------- properties
Active == current_session_file # NoFile

\* the sum of one field over a sequence of entries, added up in event order
RECURSIVE SumInOrder(_, _, _)
SumInOrder(entries, field, acc) ==
  IF entries = <<>> THEN acc
  ELSE SumInOrder(Tail(entries), field, acc + Head(entries)[field])

\* the number of entries that carry value key in field
CountOf(entries, field, key) ==
  Cardinality({ i \in 1..Len(entries) : entries[i][field] = key })

RECURSIVE SumOfCounts(_)
SumOfCounts(d) ==
  IF DOMAIN d = {} THEN 0
  ELSE LET k == CHOOSE x \in DOMAIN d : TRUE
       IN  d[k] + SumOfCounts([x \in DOMAIN d \ {k} |-> d[x]])

\* C1: whenever an active-session record exists, total_entries is the number
\* of its entries, total_tokens_input and total_tokens_output are the sums of
\* the entries' token counts, and total_cost is the sum of the entries'
\* total_cost added up in event order.
C1_TotalsMatchEntries ==
  Active =>
    LET s == current_session_file
    IN  /\ s.total_entries = Len(s.entries)
        /\ s.total_tokens_input = SumInOrder(s.entries, "tokens_input", 0)
        /\ s.total_tokens_output = SumInOrder(s.entries, "tokens_output", 0)
        /\ s.total_cost = SumInOrder(s.entries, "total_cost", 0)

\* a second session holds two events of different cost
C1_Witness ==
  /\ Active
  /\ \E id \in SessionIds : session_files[id] # NoFile
  /\ Len(current_session_file.entries) = 2
  /\ current_session_file.entries[1].total_cost # current_session_file.entries[2].total_cost
  /\ current_session_file.entries[1].cost_input > 0

\* C2: in every active-session record operations[k] is the number of entries
\* with operation k and models_used[m] the number of entries with model m,
\* the keys are exactly the operations and models of the entries, no count
\* is 0, and the operations counts add up to total_entries.
C2_CountsMatchEntries ==
  Active =>
    LET s == current_session_file
    IN  /\ DOMAIN s.operations = { s.entries[i].operation : i \in 1..Len(s.entries) }
        /\ DOMAIN s.models_used = { s.entries[i].model : i \in 1..Len(s.entries) }
        /\ \A k \in DOMAIN s.operations :
              s.operations[k] = CountOf(s.entries, "operation", k) /\ s.operations[k] # 0
        /\ \A m \in DOMAIN s.models_used :
              s.models_used[m] = CountOf(s.entries, "model", m) /\ s.models_used[m] # 0
        /\ SumOfCounts(s.operations) = s.total_entries

\* three events, two of one operation, from three models
C2_Witness ==
  /\ Active
  /\ current_session_file.total_entries = 3
  /\ \E k \in DOMAIN current_session_file.operations : current_session_file.operations[k] = 2
  /\ Cardinality(DOMAIN current_session_file.models_used) = 3

\* C3: with no active-session record, log, end and status leave the
\* active record, the closed records and the reports as they are, print a
\* "no active session" message, and end returns no report.
C3_NoSessionNoMutation ==
  [][ (~Active /\ (Log \/ End \/ Status)) =>
        /\ persisted' = persisted
        /\ Len(out'.msgs) = 1
        /\ out'.msgs[1] \in NoSessionMsgs
        /\ out'.ret = None ]_vars

\* end was refused after a session had been closed and reported
C3_Witness ==
  /\ ~Active
  /\ out.op = "end"
  /\ out.msgs = <<"No active session to end.">>
  /\ \E id \in SessionIds : session_files[id] # NoFile /\ report_files[id] # NoFile

\* C4: an end in the Active state writes the closed record under the
\* session's session_id with the entries, totals, counts, name, start time
\* and start revision of the active record (only end_time and
\* git_commit_end differ), reloads to the same data, leaves the other
\* closed records alone and removes the active record.
C4_EndWritesSnapshot ==
  [][ (Active /\ End) =>
        LET s == current_session_file
            c == session_files'[s.session_id]
        IN  /\ c # NoFile
            /\ [c EXCEPT !.end_time = s.end_time, !.git_commit_end = s.git_commit_end] = s
            /\ c.end_time = isoformat(now)
            /\ json_dump(json_load(c)) = c
            /\ \A id \in SessionIds \ {s.session_id} : session_files'[id] = session_files[id]
            /\ ~Active' ]_vars

\* a session of two events was closed by the last command
C4_Witness ==
  /\ history = <<"start", "log", "log", "end">>
  /\ ~Active
  /\ \E id \in SessionIds :
        /\ session_files[id] # NoFile
        /\ session_files[id].total_entries = 2
        /\ session_files[id].git_commit_start # JsonNull
        /\ session_files[id].git_commit_end # JsonNull

\* C5: the active-session record never has end_time set, and every closed
\* record has.
C5_EndTimeIffClosed ==
  /\ Active => current_session_file.end_time = JsonNull
  /\ \A id \in SessionIds :
        session_files[id] # NoFile => session_files[id].end_time \in { isoformat(t) : t \in Clock }

\* a closed session and an active one side by side
C5_Witness ==
  /\ Active
  /\ \E id \in SessionIds : session_files[id] # NoFile
  /\ history = <<"start", "end", "start", "log">>

\* C6 as stated: once a closed record exists, no command changes it or its
\* report, and no active session carries its session_id.
C6_ClosedNeverTouched ==
  [][ \A id \in SessionIds :
        session_files[id] # NoFile =>
          /\ session_files'[id] = session_files[id]
          /\ report_files'[id] = report_files[id]
          /\ Active' => current_session_file'.session_id # id ]_vars

\* What does hold of closed records: one and its report change only by the end of
\* an active session that carries the same session_id; a closed record is
\* never removed; and a session_id of a closed record comes to the active
\* session only by a start issued in the clock second that session_id names.
ClosedChangesOnlyBySameId ==
  [][ \A id \in SessionIds :
        session_files[id] # NoFile =>
          /\ (session_files'[id] # session_files[id] \/ report_files'[id] # report_files[id])
                => (Active /\ current_session_file.session_id = id /\ End)
          /\ session_files'[id] # NoFile
          /\ (Active' /\ current_session_file'.session_id = id
                 /\ ~(Active /\ current_session_file.session_id = id))
                => (Start /\ ToString(now \div TicksPerSecond) = id) ]_vars

\* a second session of the same second has replaced the closed record of
\* the first, whose report is still there
ClosedReplaced ==
  /\ history = <<"start", "end", "start", "end">>
  /\ \E id \in SessionIds :
        /\ session_files[id] # NoFile
        /\ report_files[id] # NoFile
        /\ session_files[id].session_name # report_files[id].session_name

\* C7: a start in the Active state replaces the active record by a fresh
\* session (zero totals, no counts, no entries, no end_time), prints the
\* start confirmation only, and writes no closed record and no report.
C7_StartReplacesActive ==
  [][ (Active /\ Start) =>
        LET s == current_session_file'
        IN  /\ Active'
            /\ s.total_entries = 0
            /\ s.total_tokens_input = 0
            /\ s.total_tokens_output = 0
            /\ s.total_cost = 0
            /\ s.operations = << >>
            /\ s.models_used = << >>
            /\ s.entries = << >>
            /\ s.end_time = JsonNull
            /\ out'.msgs = <<"Started session">>
            /\ session_files' = session_files
            /\ report_files' = report_files ]_vars

\* a session with a logged event was replaced; its event is in no file
C7_Witness ==
  /\ history = <<"start", "log", "start">>
  /\ Active
  /\ current_session_file.entries = << >>
  /\ \A id \in SessionIds : session_files[id] = NoFile /\ report_files[id] = NoFile

\* the session records in the session directory, as loaded
Records ==
  { json_load(session_files[id]) : id \in { i \in SessionIds : session_files[i] # NoFile } }
  \cup (IF Active THEN {json_load(current_session_file)} ELSE {})

\* the closed records, as loaded
ClosedRecords ==
  { json_load(session_files[id]) : id \in { i \in SessionIds : session_files[i] # NoFile } }

\* C8: a log with a model outside the pricing table is priced with the
\* claude-sonnet-4 entry, keeps the requested model in the event and counts
\* it under the requested model, adds nothing to the claude-sonnet-4 count,
\* and succeeds with a warning.
C8_UnknownModelKeepsName ==
  [][ \A args \in LogInputs :
        (Active /\ args[3] \notin DOMAIN MODEL_PRICING
           /\ log_usage(args[1], args[2], args[3], args[4], args[5])) =>
          LET old == current_session_file
              new == current_session_file'
              e == new.entries[Len(new.entries)]
              sonnet == MODEL_PRICING["claude-sonnet-4"]
              count(d, k) == IF k \in DOMAIN d THEN d[k] ELSE 0
          IN  /\ Len(new.entries) = Len(old.entries) + 1
              /\ e.model = args[3]
              /\ e.cost_input = args[1] * sonnet.input_price_per_1k
              /\ e.cost_output = args[2] * sonnet.output_price_per_1k
              /\ e.total_cost = e.cost_input + e.cost_output
              /\ new.models_used[args[3]] = count(old.models_used, args[3]) + 1
              /\ new.models_used[args[3]] = CountOf(new.entries, "model", args[3])
              /\ count(new.models_used, "claude-sonnet-4")
                   = count(old.models_used, "claude-sonnet-4")
              /\ out'.msgs = <<"Warning: Unknown model, using claude-sonnet-4 pricing", "Logged">> ]_vars

\* two events of model gpt-5 in one session
C8_Witness ==
  /\ history = <<"start", "log", "log">>
  /\ Active
  /\ DOMAIN current_session_file.models_used = {"gpt-5"}
  /\ current_session_file.models_used["gpt-5"] = 2
  /\ current_session_file.total_cost = 2 * (1000 * 3000 + 2000 * 15000)

\* C9: for a model of the pricing table an event costs tokens_input / 1000
\* times the input price plus tokens_output / 1000 times the output price;
\* start, log(1500, 800, claude-sonnet-4), end gives a total_cost of 16.50.
\* (Prices are in 1/1000 dollar, costs in 1/1000000 dollar.)
C9_LinearPricing ==
  /\ \A s \in Records : \A i \in 1..Len(s.entries) :
        LET e == s.entries[i]
        IN  e.model \in DOMAIN MODEL_PRICING =>
              /\ e.cost_input = e.tokens_input * MODEL_PRICING[e.model].input_price_per_1k
              /\ e.cost_output = e.tokens_output * MODEL_PRICING[e.model].output_price_per_1k
              /\ e.total_cost = e.cost_input + e.cost_output
  /\ \A s \in ClosedRecords :
        (/\ history = <<"start", "log", "end">>
         /\ s.entries[1].tokens_input = 1500
         /\ s.entries[1].tokens_output = 800
         /\ s.entries[1].model = "claude-sonnet-4") => s.total_cost = 16500000

\* the closed session of the example
C9_Witness ==
  /\ history = <<"start", "log", "end">>
  /\ \E s \in ClosedRecords :
        /\ s.entries[1].tokens_input = 1500
        /\ s.entries[1].tokens_output = 800
        /\ s.entries[1].model = "claude-sonnet-4"
        /\ s.entries[1].cost_input = 4500000
        /\ s.entries[1].cost_output = 12000000
        /\ s.total_cost = 16500000

\* C10: for every closed session the report divides by nothing that is 0:
\* the percentages divide by total_entries only when there is an entry, the
\* average cost and the ratio divide by at least 1, the hourly rate by at
\* least 0.01 hour and the tokens per minute by at least 1 minute; end never
\* fails with a division by zero.
C10_NoDivisionByZero ==
  /\ \A s \in ClosedRecords :
        LET d == report_divisors(s)
        IN  /\ ~raises_zero_division(d)
            /\ (d.operations \cup d.models) # {} => s.total_entries >= 1
            /\ d.operations \cup d.models \subseteq {s.total_entries}
            /\ d.avg_cost >= 1
            /\ d.output_ratio >= 1
            /\ 100 * d.hourly_rate >= 3600 * TicksPerSecond
            /\ d.tokens_per_minute >= 60 * TicksPerSecond
  /\ \A id \in SessionIds :
        report_files[id] # NoFile => ~raises_zero_division(report_files[id].divisors)
  /\ "ZeroDivisionError" \notin { out.msgs[i] : i \in 1..Len(out.msgs) }

\* a report of a session with no event and no duration, and a closed
\* session with an event
C10_Witness ==
  /\ \E id \in SessionIds :
        /\ report_files[id] # NoFile
        /\ report_files[id].total_entries = 0
        /\ report_files[id].duration = 0
        /\ report_files[id].divisors.operations = {}
  /\ \E s \in ClosedRecords : report_divisors(s).operations = {1}

\* the notices whose condition holds of a session snapshot, in rule order
ExpectedInsights(s) ==
  LET ratio_divisor == IF s.total_tokens_input >= 1 THEN s.total_tokens_input ELSE 1
      holds(notice) ==
        CASE notice = "High cost session" -> s.total_cost > 10 * 1000000
          [] notice = "Low output ratio" -> 2 * s.total_tokens_output < ratio_divisor
          [] notice = "High output ratio" -> s.total_tokens_output > 2 * ratio_divisor
          [] notice = "Heavy Opus usage" -> CountOf(s.entries, "model", "claude-opus-4") > 5
  IN  SelectSeq(<<"High cost session", "Low output ratio", "High output ratio",
                  "Heavy Opus usage">>, holds)

\* the session made of the one event args
OnlyEvent(s, args) ==
  /\ Len(s.entries) = 1
  /\ s.entries[1].tokens_input = args[1]
  /\ s.entries[1].tokens_output = args[2]
  /\ s.entries[1].model = args[3]

\* C11: the insight notices of a report are exactly those of the four rules
\* whose condition holds, in rule order, with strict thresholds: cost over
\* 10.0, ratio under 0.5, ratio over 2.0, more than 5 claude-opus-4 events;
\* the one event (1500, 800, claude-sonnet-4) gets the high-cost notice
\* only, (500, 3000) the high-output-ratio notice, and a ratio of exactly
\* 2.0 or 0.5 no ratio notice.
C11_InsightsByRule ==
  \A id \in SessionIds :
    report_files[id] # NoFile =>
      LET s == json_load(session_files[id])
          notices == report_files[id].insights
          has(notice) == \E i \in 1..Len(notices) : notices[i] = notice
      IN  /\ notices = ExpectedInsights(s)
          /\ OnlyEvent(s, <<1500, 800, "claude-sonnet-4">>) => notices = <<"High cost session">>
          /\ OnlyEvent(s, <<500, 3000, "claude-sonnet-4">>) => has("High output ratio")
          /\ (OnlyEvent(s, <<1000, 2000, "gpt-5">>) \/ OnlyEvent(s, <<2000, 1000, "claude-haiku-3">>))
                => ~has("Low output ratio") /\ ~has("High output ratio")
          /\ s.total_cost = 10000000 => ~has("High cost session")
          /\ has("Heavy Opus usage") <=> CountOf(s.entries, "model", "claude-opus-4") >= 6

\* the report of a session of six claude-opus-4 events
C11_Witness ==
  \E id \in SessionIds :
    /\ report_files[id] # NoFile
    /\ report_files[id].insights = <<"Heavy Opus usage">>
    /\ report_files[id].total_entries = 6

\* C12: in a report written by end, a revision marker that is absent in the
\* session (None at start or at end) is rendered as N/A.
C12_AbsentRevisionAsNA ==
  [][ \A id \in SessionIds :
        (Active /\ End /\ report_files'[id] # report_files[id]) =>
          LET s == json_load(session_files'[id])
              r == report_files'[id]
          IN  /\ s.git_commit_start = None => r.git_commit_start = "N/A"
              /\ s.git_commit_end = None => r.git_commit_end = "N/A" ]_vars

\* C13 as stated: a report of a session without end_time takes the time from
\* start_time to the current time as the duration.
C13_DurationToNow ==
  [][ report_in_progress =>
        LET s == json_load(current_session_file)
        IN  report_files'[s.session_id].duration = now - fromisoformat(s.start_time) ]_vars

\* C13 as amended: a report of a session without end_time shows start_time
\* as the end time and a duration of zero, whatever the current time.
C13_DurationZero ==
  [][ report_in_progress =>
        LET s == json_load(current_session_file)
            r == report_files'[s.session_id]
        IN  /\ s.end_time = None
            /\ r.end_time = fromisoformat(s.start_time)
            /\ r.duration = 0 ]_vars

\* a report of a session in progress, written after its start second
C13_Witness ==
  /\ history = <<"start", "log", "tick", "report">>
  /\ Active
  /\ LET r == report_files[current_session_file.session_id]
     IN  /\ r # NoFile
         /\ r.duration = 0
         /\ r.total_entries = 1
         /\ r.start_time < now

\* C14: writes of the active-session record are atomic: once a start or a log
\* invocation has failed or was interrupted while persisting, the active-session
\* record is a whole record (the one from before or the new one), never an
\* empty or torn one.
C14_NeverTorn == (\A p \in Procs : Finished(p)) => current_session_file \notin TornFiles

\* the positions in the run of the steps of process p
StepsOf(p) ==
  { i \in 1..Len(history) :
      history[i] \in { StepName(p, name) :
                         name \in {"log.load", "write", "write.open", "write.flush", "write.close"} } }

\* one invocation took all of its steps before the other took its first
Sequential ==
  \/ \A i \in StepsOf(1), j \in StepsOf(2) : i < j
  \/ \A i \in StepsOf(1), j \in StepsOf(2) : j < i

\* both log invocations found the session, wrote and returned
BothLogged == \A p \in Procs : procs[p].cmd = "log" /\ procs[p].pc = "done" /\ procs[p].data # Nothing

Logged(p) == procs[p].data.entries[Len(procs[p].data.entries)]

\* C15: two log invocations that run one after the other, in either order,
\* record both events (the lost update of the witness needs their load and save
\* steps to interleave).
C15_SequentialRecordsBoth ==
  (BothLogged /\ Sequential) =>
    LET session_data == json_load(current_session_file)
    IN  /\ session_data.total_entries = 2
        /\ Len(session_data.entries) = 2
        /\ \/ session_data.entries = <<Logged(1), Logged(2)>>
           \/ session_data.entries = <<Logged(2), Logged(1)>>

\* both invocations completed and the record holds one event only
C15_Witness ==
  /\ BothLogged
  /\ ~Sequential
  /\ json_load(current_session_file).total_entries = 1
  /\ Len(json_load(current_session_file).entries) = 1
  /\ Logged(1) # Logged(2)

\* C16: status leaves the active record, the closed records and the reports
\* as they are, with and without an active session; with one, the cost, the
\* entry count and the token totals it shows are those of the active record and
\* the last activity it shows is the last event of the record.
C16_StatusReadOnly ==
  [][ Status =>
        /\ persisted' = persisted
        /\ out'.op = "status"
        /\ IF Active
           THEN LET session_data == json_load(current_session_file)
                    n == Len(session_data.entries)
                IN  /\ out'.shown.session_name = session_data.session_name
                    /\ out'.shown.total_cost = session_data.total_cost
                    /\ out'.shown.total_entries = session_data.total_entries
                    /\ out'.shown.total_tokens_input = session_data.total_tokens_input
                    /\ out'.shown.total_tokens_output = session_data.total_tokens_output
                    /\ n > 0 => out'.shown.last_activity =
                                   <<session_data.entries[n].operation,
                                     session_data.entries[n].timestamp>>
                    /\ n = 0 => out'.shown.last_activity = Nothing
           ELSE out'.msgs = <<"No active session">> /\ out'.shown = Nothing ]_vars

\* status after two events of different kinds shows the second one
C16_Witness ==
  /\ history = <<"start", "log", "log", "status">>
  /\ Active
  /\ out.op = "status"
  /\ out.shown.total_entries = 2
  /\ out.shown.total_cost = current_session_file.total_cost
  /\ out.shown.last_activity[1] = current_session_file.entries[2].operation
  /\ current_session_file.entries[1].operation # current_session_file.entries[2].operation

\* the fields of a session record that log_usage has no business with
Identity(record) ==
  <<record.session_id, record.session_name, record.start_time, record.end_time,
    record.project_path, record.git_commit_start, record.git_commit_end>>

\* C17: a log with an active session appends exactly one event at the end of
\* entries: the events logged before stay as they were, in their places; the
\* session_id, session_name, start_time, end_time, project_path, git_commit_start
\* and git_commit_end of the record and all closed records stay unchanged.
C17_LogAppendsOne ==
  [][ (Active /\ Log) =>
        LET old == current_session_file.entries
            new == current_session_file'.entries
        IN  /\ Len(new) = Len(old) + 1
            /\ SubSeq(new, 1, Len(old)) = old
            /\ new[Len(new)].timestamp = isoformat(now)
            /\ \E args \in LogInputs :
                  /\ new[Len(new)].tokens_input = args[1]
                  /\ new[Len(new)].tokens_output = args[2]
                  /\ new[Len(new)].model = args[3]
                  /\ new[Len(new)].operation = args[4]
            /\ Identity(current_session_file') = Identity(current_session_file)
            /\ current_session_file'.end_time = JsonNull
            /\ session_files' = session_files
            /\ report_files' = report_files ]_vars

\* a second event was logged after a first, different one, beside a closed
\* record
C17_Witness ==
  /\ history = <<"start", "end", "start", "log", "log">>
  /\ Active
  /\ Len(current_session_file.entries) = 2
  /\ current_session_file.entries[1] # current_session_file.entries[2]
  /\ out.op = "log"
  /\ ClosedRecords # {}

\* the end invocation of process 1 has written the closed record and has
\* not returned
Saved == procs[1].cmd = "end" /\ procs[1].pc \in {"saved", "reported"}

\* C18: an end with an active session runs the Report Generator once when
\* generate_report is true and never when it is false; the generator runs after
\* the closed record is written and before the active record is removed, on a
\* snapshot with end_time set; end returns the report location exactly when a
\* report was generated.
C18_ReportOnceInOrder ==
  [][ procs' # procs =>
        LET before == procs[1]
            after == procs'[1]
            session_id == after.data.session_id
        IN  \* the generator runs from "saved" only, and leaves it
            /\ report_files' # report_files =>
                  /\ before.pc = "saved" /\ before.flag
                  /\ after.pc \in {"reported", "failed"}
            /\ after.pc = "reported" =>
                  /\ before.pc = "saved" /\ before.flag
                  /\ session_files[session_id] = json_dump(before.data)
                  /\ before.data.end_time # None
                  /\ current_session_file # NoFile
                  /\ current_session_file' = current_session_file
                  /\ report_files'[session_id] = report_content(before.data)
                  /\ report_files'[session_id].end_time = fromisoformat(before.data.end_time)
            \* the active record goes after the report, or with no report
            /\ (after.pc = "done" /\ after.data # Nothing) =>
                  /\ before.pc = (IF before.flag THEN "reported" ELSE "saved")
                  /\ current_session_file # NoFile /\ current_session_file' = NoFile
                  /\ report_files' = report_files
                  /\ session_files[session_id] = json_dump(before.data)
                  /\ before.flag => /\ report_files[session_id] = report_content(before.data)
                                     /\ out'.ret = report_name(session_id)
                  /\ ~before.flag => out'.ret = None
            /\ after.pc = "saved" =>
                  /\ report_files' = report_files
                  /\ current_session_file' = current_session_file ]_vars

\* an end with a report has returned: save, report, unlink, in this order
C18_Witness ==
  /\ history = <<"start", "log", "end.save@1", "end.report@1", "end.unlink@1">>
  /\ procs[1].pc = "done"
  /\ procs[1].flag
  /\ procs[1].data.total_entries = 1
  /\ procs[1].data.end_time # None
  /\ out.ret = report_name(procs[1].data.session_id)
  /\ report_files[procs[1].data.session_id] = report_content(procs[1].data)
  /\ session_files[procs[1].data.session_id] = json_dump(procs[1].data)
  /\ ~Active

\* the end invocation of process 1 failed in the report generator and the
\* session it was to close is still the active one
FailedEnd ==
  /\ procs[1].cmd = "end"
  /\ procs[1].pc = "failed"
  /\ Active
  /\ current_session_file.session_id = procs[1].data.session_id

\* C20: an end that fails in the report generator, after the closed record
\* is written, leaves the active record in place and unchanged, with no
\* end_time; the next end of the session closes it with the events and totals of
\* the active record and overwrites the closed record that the failed end wrote.
C20_FailedEndKeepsActive ==
  [][ /\ (procs[1].pc = "saved" /\ procs'[1].pc = "failed") =>
            /\ session_files[procs[1].data.session_id] = json_dump(procs[1].data)
            /\ session_files' = session_files
            /\ current_session_file' = current_session_file
            /\ Active'
            /\ current_session_file'.end_time = JsonNull
            /\ current_session_file'.entries = procs[1].data.entries
            /\ current_session_file'.total_cost = procs[1].data.total_cost
      /\ (FailedEnd /\ session_files' # session_files) =>
            LET session_id == current_session_file.session_id
                active == json_load(current_session_file)
                closed == json_load(session_files'[session_id])
            IN  /\ session_files[session_id] # NoFile
                /\ \A id \in SessionIds \ {session_id} : session_files'[id] = session_files[id]
                /\ closed.end_time = isoformat(now)
                /\ \E git_commit \in {None, "e4f5a6b"} :
                      closed = end_update(active, isoformat(now), git_commit)
                /\ closed.entries = active.entries
                /\ closed.total_cost = active.total_cost
                /\ closed.total_entries = active.total_entries
                /\ closed.total_tokens_input = active.total_tokens_input
                /\ closed.total_tokens_output = active.total_tokens_output
                /\ active.entries = json_load(session_files[session_id]).entries =>
                      closed.entries = procs[1].data.entries ]_vars

\* an end failed in its report, the next end succeeded and replaced the
\* closed record of the first with its own
C20_Witness ==
  /\ history = <<"start", "log", "end.save@1", "end.fail@1", "end">>
  /\ ~Active
  /\ procs[1].pc = "failed"
  /\ out.op = "end"
  /\ out.msgs[1] = "Session ended"
  /\ LET closed == json_load(session_files[procs[1].data.session_id])
     IN  /\ closed.entries = procs[1].data.entries
         /\ Len(closed.entries) = 1
         /\ closed.total_cost = procs[1].data.total_cost
         /\ closed.git_commit_end # procs[1].data.git_commit_end

\* session_id tells the clock seconds apart and nothing finer, and a start
\* gives the session the session_id of the second of its clock reading
IdOfSecond ==
  /\ \A t1, t2 \in Clock :
        (strftime_seconds(t1) = strftime_seconds(t2))
          <=> (t1 \div TicksPerSecond = t2 \div TicksPerSecond)
  /\ Start => (Active' /\ current_session_file'.session_id = strftime_seconds(now))

\* the end of a session leaves the closed records and the reports of all
\* other session_ids as they are
EndKeepsOtherIds ==
  (Active /\ End) =>
    \A id \in SessionIds \ {current_session_file.session_id} :
      session_files'[id] = session_files[id] /\ report_files'[id] = report_files[id]

\* the active session carries the session_id of a closed and reported one
SecondOfSameId ==
  /\ Active
  /\ session_files[current_session_file.session_id] # NoFile
  /\ report_files[current_session_file.session_id] # NoFile

\* the closed record that an end of the active session writes
IsClosedFromActive(closed) ==
  \E git_commit \in {None, "e4f5a6b"} :
    closed = end_update(json_load(current_session_file), isoformat(now), git_commit)

\* C19 as stated: sessions started in different clock seconds have different
\* session_ids and the end of one leaves the closed record and the report of
\* the other alone; sessions started in the same clock second have the same
\* session_id, and the end of the second overwrites the closed record and the
\* report of the first.
C19_CloseOverwritesBoth ==
  [][ /\ IdOfSecond
      /\ EndKeepsOtherIds
      /\ (SecondOfSameId /\ End) =>
            LET session_id == current_session_file.session_id
                closed == json_load(session_files'[session_id])
            IN  /\ IsClosedFromActive(closed)
                /\ report_files'[session_id] = report_content(closed) ]_vars

\* C19, amended: as above, but the end of the second session overwrites the
\* report of the first only when it generates a report; with generate_report
\* false the report of the first stays beside the closed record of the second.
C19_CloseOverwritesRecord ==
  [][ /\ IdOfSecond
      /\ EndKeepsOtherIds
      /\ (SecondOfSameId /\ End) =>
            LET session_id == current_session_file.session_id
                closed == json_load(session_files'[session_id])
            IN  /\ IsClosedFromActive(closed)
                /\ out'.ret # None => report_files'[session_id] = report_content(closed)
                /\ out'.ret = None => report_files'[session_id] = report_files[session_id] ]_vars

\* two sessions of one clock second, the second ended without a report:
\* the closed record is the second's, the report is still the first's
C19_Witness ==
  /\ history = <<"start", "end", "start", "end">>
  /\ out.op = "end"
  /\ out.ret = None
  /\ out.msgs = <<"Session ended">>
  /\ \E id \in SessionIds :
        /\ session_files[id] # NoFile
        /\ report_files[id] # NoFile
        /\ session_files[id].session_name = out.shown.session_name
        /\ report_files[id].session_name # out.shown.session_name

====
